---- MODULE Spec2Model ----
(***************************************************************************)
(* A model of the bilbot trading system: the sticky EMA/SMA crossover      *)
(* detector (sma_ema_crossover_algo.py), the BlingBot trading cycle with   *)
(* its per-symbol capital tracking (bling_bot.py) and the JSON capital     *)
(* store (config_manager.py).                                              *)
(*                                                                         *)
(* Twelve specifications share the module:                                 *)
(*   SpecDet      the detector fed with a growing series of indicator      *)
(*                points                                                   *)
(*   SpecLookBack _find_last_crossover_signal over every such series       *)
(*   Spec         one BlingBot against a broker account and its store      *)
(*                record                                                   *)
(*   SpecCycle    one BlingBot driven through run(), on either algorithm   *)
(*   SpecCycleFair  the same, under fairness of clock, loop and broker    *)
(*   SpecSession  run_bot: the trading session around the cycles           *)
(*   SpecLaunch   run_multiple_bots: the bot built from its config entry,  *)
(*                then run_bot                                             *)
(*   SpecConfig   a ConfigManager used on its own                          *)
(*   SpecSma      calculate_sma over a growing price series                *)
(*   SpecStore    two BlingBot instances persisting into one config file   *)
(*   SpecSave     two threads in save_config on one config file            *)
(*   SpecTrader   one TradingBot (trading_bot.py) driven through run()     *)
(***************************************************************************)
EXTENDS Integers, Sequences, FiniteSets, TLC

\* The detector.
VARIABLES
  bars,            \* the series the data source has produced so far
  current_signal,  \* SmaEmaCrossoverAlgo.current_signal
  ret,             \* the dict returned by the latest signal call
  lastLen,         \* rows of the frame the latest call on a frame saw
  upAt             \* rows of the frame on which a call last reported a bullish crossover

detVars == <<bars, current_signal, ret, lastLen, upAt>>

\* One BlingBot, its store and its broker account.
VARIABLES
  current_value,     \* BlingBot.current_value, in half cents
  current_position,  \* BlingBot.current_position
  cached_signal,     \* 'signal' of BlingBot.cached_signal, None before the first
  last_signal_time,  \* "None", or "recent" / "stale" against interval_minutes
  config_data,       \* the bot's ConfigManager.config_data
  file,              \* the config file on disk
  broker,            \* the account: net quantity, market value, open requests,
                     \* and the state of the trading client's connection to it
  obs                \* what the latest operation did

botVars == <<current_value, current_position, cached_signal, last_signal_time,
             config_data, file, broker, obs>>

\* Two BlingBot instances on one config file.
VARIABLES
  store_file,   \* the shared config file: bot id -> current_value
  store_mem,    \* per bot, its ConfigManager.config_data
  store_cv,     \* per bot, its current_value
  store_last    \* per bot, the value its latest successful write stored

storeVars == <<store_file, store_mem, store_cv, store_last>>

\* The session run_bot drives.
VARIABLES
  algorithm,    \* the bot's 'algorithm' entry of the config
  session       \* where the bot's thread stands: "unbuilt" and "rejected" around
                \* from_config_id, then run_bot's "new", "active" or "over"

runVars == <<algorithm, session>>

\* The SMA indicator computed over a price series.
VARIABLES
  closes,       \* the 'close' column of the frame
  sma_period,   \* SmaEmaCrossoverAlgo.sma_period
  sma_21        \* the series calculate_sma returned last, << >> before the first call

indVars == <<closes, sma_period, sma_21>>

\* save_config run by the threads of two bots on one config file.
VARIABLES
  save_file,    \* the bytes of the config file
  save_thread   \* per thread: where it is in save_config, its offset in the
                \* file, and the length of the snapshot it dumps

saveVars == <<save_file, save_thread>>

(***************************************************************************)
(* Part 1.  SmaEmaCrossoverAlgo: the crossover detector.                   *)
(*                                                                         *)
(* A data frame is a sequence of rows; a row carries the two indicator     *)
(* columns ema_9 and sma_21 as small integer levels.  sma = NaN is the     *)
(* SMA warm-up (rolling(window).mean() yields NaN until the window is      *)
(* full); the EMA (ewm(adjust=False)) is defined on every row.             *)
(***************************************************************************)

\* Longest series the data feed grows to.
MaxBars == 4

NaN == 0

None == "None"

\* Indicator levels.  The detector only compares ema_9 with sma_21, and two
\* levels give every outcome of the comparison: below, equal and above.
Levels == {1, 2}

\* Rows with both indicators, and the warm-up row (its EMA is never compared).
Rows == [ema : Levels, sma : Levels] \cup {[ema |-> 1, sma |-> NaN]}

IsNaN(p) == p.sma = NaN

\* A mutation of EmaAboveSma: a tie counts as above.
EmaAboveOrOnSma(p) == p.ema >= p.sma

\* ema_9 > sma_21 on one row (strict: a tie is "not above").
EmaAboveSma(p) == p.ema > p.sma

\* df.dropna(subset=['ema_9', 'sma_21'])
ValidData(df) == SelectSeq(df, LAMBDA p : ~IsNaN(p))

\* A mutation of OrSell: an unset signal is handed out as it is.
OrUnset(sig) == sig

\* self.current_signal or "SELL"
OrSell(sig) == IF sig = None THEN "SELL" ELSE sig

\* A mutation of ScanBack: the loop runs forward and stops at the earliest
\* flag change.
RECURSIVE ScanFromFront(_, _)
ScanFromFront(v, i) ==
  IF i < 2 THEN None
  ELSE LET earlier == ScanFromFront(v, i - 1) IN
       IF earlier # None THEN earlier
       ELSE IF EmaAboveSma(v[i - 1]) # EmaAboveSma(v[i])
       THEN (IF EmaAboveSma(v[i]) THEN "BUY" ELSE "SELL")
       ELSE None

\* The backward loop of _find_last_crossover_signal: i runs from len-1 down to 1
\* (here 1-based: from Len(v) down to 2) and stops at the first flag change.
RECURSIVE ScanBack(_, _)
ScanBack(v, i) ==
  IF i < 2 THEN None
  ELSE IF EmaAboveSma(v[i - 1]) # EmaAboveSma(v[i])
       THEN (IF EmaAboveSma(v[i]) THEN "BUY" ELSE "SELL")
       ELSE ScanBack(v, i - 1)

\* A mutation of FindLastCrossoverSignal: without a crossover the answer is
\* the SELL default, whatever the latest row shows.
FindLastDefaultsToSell(df) ==
  IF Len(df) < 2 THEN "SELL"
  ELSE LET v == ValidData(df) IN
       IF Len(v) < 2 THEN "SELL"
       ELSE LET found == ScanBack(v, Len(v)) IN
            IF found # None THEN found ELSE "SELL"

\* _find_last_crossover_signal
FindLastCrossoverSignal(df) ==
  IF Len(df) < 2 THEN "SELL"
  ELSE LET v == ValidData(df) IN
       IF Len(v) < 2 THEN "SELL"
       ELSE LET found == ScanBack(v, Len(v)) IN
            IF found # None THEN found
            ELSE IF EmaAboveSma(v[Len(v)]) THEN "BUY" ELSE "SELL"

\* The dict a signal call returns, reduced to what callers read.
SignalInfo(sig, price, reason, ctype) ==
  [signal |-> sig, price |-> price, reason |-> reason, crossover_type |-> ctype]

\* A mutation of Maintain: no crossover resets the signal, as a detector
\* without persistence would.
MaintainForgets(cur, df) == None

\* "If we don't have a current signal, look back through the data": the signal
\* kept when the last two rows show no crossover.
Maintain(cur, df) == IF cur = None THEN FindLastCrossoverSignal(df) ELSE cur

\* detect_crossover(df) with self.current_signal = cur:
\* the new current_signal and the returned dict.
DetectCrossover(cur, df) ==
  IF Len(df) < 2
  THEN [cur |-> cur, ret |-> SignalInfo(OrSell(cur), None, "insufficient", None)]
  ELSE LET prev == df[Len(df) - 1]
           curr == df[Len(df)]
       IN
       IF IsNaN(prev) \/ IsNaN(curr)
       THEN LET c == Maintain(cur, df) IN
            [cur |-> c, ret |-> SignalInfo(OrSell(c), "close", "nan", None)]
       ELSE IF ~EmaAboveSma(prev) /\ EmaAboveSma(curr)
       THEN [cur |-> "BUY", ret |-> SignalInfo("BUY", "close", "crossed_above", "bullish")]
       ELSE IF EmaAboveSma(prev) /\ ~EmaAboveSma(curr)
       THEN [cur |-> "SELL", ret |-> SignalInfo("SELL", "close", "crossed_below", "bearish")]
       ELSE LET c == Maintain(cur, df) IN
            [cur |-> c, ret |-> SignalInfo(OrSell(c), "close", "no_crossover", None)]

\* What the data fetch of one get_signal call yields.
FetchOutcomes == {"data", "empty", "fetch_error", "compute_error"}

\* A mutation of AlgoGetSignal: a call without data falls back to the SELL
\* default and forgets the signal it held.
AlgoGetSignalResets(cur, df, outcome) ==
  IF outcome = "compute_error"
  THEN [cur |-> cur, ret |-> SignalInfo(OrSell(cur), None, "error", None)]
  ELSE IF outcome \in {"empty", "fetch_error"} \/ df = << >>
  THEN [cur |-> "SELL", ret |-> SignalInfo("SELL", None, "no_data", None)]
  ELSE DetectCrossover(cur, df)

\* SmaEmaCrossoverAlgo.get_signal: fetch_aggregates turns a fetch error into an
\* empty frame; an exception while computing lands in the except branch.
AlgoGetSignal(cur, df, outcome) ==
  IF outcome = "compute_error"
  THEN [cur |-> cur, ret |-> SignalInfo(OrSell(cur), None, "error", None)]
  ELSE IF outcome \in {"empty", "fetch_error"} \/ df = << >>
  THEN [cur |-> cur, ret |-> SignalInfo(OrSell(cur), None, "no_data", None)]
  ELSE DetectCrossover(cur, df)

NoRet == SignalInfo(None, None, None, None)

DetInit ==
  /\ bars = << >>
  /\ current_signal = None
  /\ ret = NoRet
  /\ lastLen = 0
  /\ upAt = 0

\* The data source appends one bar; warm-up rows (NaN SMA) only precede valid rows.
NewBar(p) ==
  /\ Len(bars) < MaxBars
  /\ IsNaN(p) => \A i \in 1..Len(bars) : IsNaN(bars[i])
  /\ bars' = Append(bars, p)
  /\ UNCHANGED <<current_signal, ret, lastLen, upAt>>
  /\ UNCHANGED <<botVars, storeVars, runVars, indVars, saveVars>>

\* detect_crossover called on the series as it stands (as the persistence test does).
CallDetectCrossover ==
  LET r == DetectCrossover(current_signal, bars) IN
  /\ current_signal' = r.cur
  /\ ret' = r.ret
  /\ lastLen' = Len(bars)
  /\ upAt' = IF r.ret.crossover_type = "bullish" THEN Len(bars) ELSE upAt
  /\ UNCHANGED <<bars, botVars, storeVars, runVars, indVars, saveVars>>

\* get_signal with a fetch that yields the series, nothing, or an error.
CallGetSignal(outcome) ==
  LET r == AlgoGetSignal(current_signal, bars, outcome)
      detected == outcome = "data" /\ bars # << >>
  IN
  /\ current_signal' = r.cur
  /\ ret' = r.ret
  /\ lastLen' = IF detected THEN Len(bars) ELSE lastLen
  /\ upAt' = IF r.ret.crossover_type = "bullish" THEN Len(bars) ELSE upAt
  /\ UNCHANGED <<bars, botVars, storeVars, runVars, indVars, saveVars>>

DetNext ==
  \/ \E p \in Rows : NewBar(p)
  \/ CallDetectCrossover
  \/ \E o \in FetchOutcomes : CallGetSignal(o)

\* _find_last_crossover_signal called on the series as it stands; the method
\* touches no field, its answer is noted in ret.
CallFindLastCrossoverSignal ==
  /\ ret' = SignalInfo(FindLastCrossoverSignal(bars), None, "look_back", None)
  /\ lastLen' = Len(bars)
  /\ UNCHANGED <<bars, current_signal, upAt, botVars, storeVars, runVars, indVars, saveVars>>

\* The look-back alone, over every series the data source can produce.
LookBackNext ==
  \/ \E p \in Rows : NewBar(p)
  \/ CallFindLastCrossoverSignal

(***************************************************************************)
(* Part 1b.  calculate_sma: df['close'].rolling(window=period).mean().      *)
(*                                                                         *)
(* pandas computes the rolling mean in one pass: each row adds its value   *)
(* to a running sum, the row that leaves the window is taken off it, and   *)
(* the row's result is sum / observations once the window holds            *)
(* min_periods (= window) observations, NaN before.  A mean is kept as     *)
(* the pair (sum, n) so that no division rounds it.                        *)
(***************************************************************************)

\* Longest price series, and largest SMA period, that are tried.
MaxCloses == 4

MaxPeriod == 3

Prices == {1, 2, 4}

\* The NaN of an indicator series.
NaNMean == [sum |-> 0, n |-> 0]

\* The running sum of the window after row i (rows count from 1).
RECURSIVE RollSum(_, _, _)
RollSum(c, s, i) ==
  IF i = 0 THEN 0
  ELSE RollSum(c, s, i - 1) + c[i] - (IF i > s THEN c[i - s] ELSE 0)

\* The observations in the window after row i.
RollObs(s, i) == IF i < s THEN i ELSE s

\* A mutation of CalculateSma: min_periods = 1, a mean from the first row on.
CalculateSmaFromFirst(c, s) ==
  [i \in 1..Len(c) |-> [sum |-> RollSum(c, s, i), n |-> RollObs(s, i)]]

\* SmaEmaCrossoverAlgo.calculate_sma
CalculateSma(c, s) ==
  [i \in 1..Len(c) |->
     IF RollObs(s, i) >= s
     THEN [sum |-> RollSum(c, s, i), n |-> RollObs(s, i)]
     ELSE NaNMean]

\* No series has been computed.
SmaIdle ==
  /\ closes = << >>
  /\ sma_period = 1
  /\ sma_21 = << >>

\* The data source appends one close.
NewClose(c) ==
  /\ Len(closes) < MaxCloses
  /\ closes' = Append(closes, c)
  /\ UNCHANGED <<sma_period, sma_21, detVars, botVars, storeVars, runVars, saveVars>>

\* calculate_sma(df, period) on the series as it stands.
CallCalculateSma ==
  /\ sma_21' = CalculateSma(closes, sma_period)
  /\ UNCHANGED <<closes, sma_period, detVars, botVars, storeVars, runVars, saveVars>>

SmaNext ==
  \/ \E c \in Prices : NewClose(c)
  \/ CallCalculateSma

(***************************************************************************)
(* Part 2.  ConfigManager: the capital store.                              *)
(*                                                                         *)
(* Money is counted in half cents, so that 0.005 (below the 0.01 epsilon), *)
(* 0.01 (on it) and 0.015 (above it) are all integers.  A config is the    *)
(* function bot id -> 'current_value' of the bots the JSON file lists;     *)
(* NoValue stands for a bot entry that has no 'current_value' key.         *)
(***************************************************************************)

\* 0.01 in half cents: the threshold of _update_current_value.
Eps == 2

\* initial_value = 1000 dollars, in half cents.
InitialValue == 200000

\* How far, in half cents, a market value moves away from InitialValue.
MaxDelta == 3

NoValue == -1

Abs(x) == IF x < 0 THEN 0 - x ELSE x

\* round(new_value, 2): a whole number of cents.  A value that ends in half a
\* cent goes to one of its two neighbours, whichever the binary float is nearer to.
Round2(v, up) == IF v % 2 = 0 THEN v ELSE IF up THEN v + 1 ELSE v - 1

\* How one write to the store goes: save_config succeeds or raises, and the
\* direction round() takes on a half cent.
WriteOutcomes == [ok : BOOLEAN, up : BOOLEAN]

\* ConfigManager.get_current_value_by_id
GetCurrentValueById(config, id) ==
  IF id \in DOMAIN config THEN config[id] ELSE NoValue

\* if not self.config_data: self.load_config() -- a manager that holds nothing
\* reads the file again before it looks for the entry.
Reloaded(mem, disk) == IF mem = << >> THEN disk ELSE mem

\* A mutation of UpdateCurrentValueById: the file is written before the entry
\* is changed.
UpdateByIdSavesFirst(mem, disk, id, v, w) ==
  LET m1 == Reloaded(mem, disk) IN
  IF id \notin DOMAIN m1
  THEN [mem |-> m1, file |-> disk, ok |-> FALSE, write |-> "none"]
  ELSE LET m2 == [m1 EXCEPT ![id] = Round2(v, w.up)] IN
       IF w.ok
       THEN [mem |-> m2, file |-> m1, ok |-> TRUE, write |-> "ok"]
       ELSE [mem |-> m2, file |-> disk, ok |-> FALSE, write |-> "failed"]

\* A mutation of UpdateCurrentValueById: an id the store does not list gets an
\* entry of its own.
UpdateByIdCreates(mem, disk, id, v, w) ==
  LET m1 == Reloaded(mem, disk)
      m2 == [i \in DOMAIN m1 \cup {id} |-> IF i = id THEN Round2(v, w.up) ELSE m1[i]]
  IN
  IF w.ok
  THEN [mem |-> m2, file |-> m2, ok |-> TRUE, write |-> "ok"]
  ELSE [mem |-> m2, file |-> disk, ok |-> FALSE, write |-> "failed"]

\* ConfigManager.update_current_value_by_id on a manager whose config_data is
\* mem, over the file content disk: the entry is changed in memory, then the
\* whole of config_data is written out.  A failed save_config leaves the file
\* as it was and is reported as False.
UpdateCurrentValueById(mem, disk, id, v, w) ==
  LET m1 == Reloaded(mem, disk) IN
  IF id \notin DOMAIN m1
  THEN [mem |-> m1, file |-> disk, ok |-> FALSE, write |-> "none"]
  ELSE LET m2 == [m1 EXCEPT ![id] = Round2(v, w.up)] IN
       IF w.ok
       THEN [mem |-> m2, file |-> m2, ok |-> TRUE, write |-> "ok"]
       ELSE [mem |-> m2, file |-> disk, ok |-> FALSE, write |-> "failed"]

\* The 'symbol' of the bot entry with the given id.
SymbolOf(id) == IF id = "bot1" THEN "SPY" ELSE "QQQ"

\* ConfigManager.update_current_value: the same on the first entry whose
\* 'symbol' is sym.  The entries differ in symbol, so there is one at most.
UpdateCurrentValueBySymbol(mem, disk, sym, v, w) ==
  LET m1 == Reloaded(mem, disk)
      found == {i \in DOMAIN m1 : SymbolOf(i) = sym}
  IN
  IF found = {}
  THEN [mem |-> m1, file |-> disk, ok |-> FALSE, write |-> "none"]
  ELSE UpdateCurrentValueById(m1, disk, CHOOSE i \in found : TRUE, v, w)

(***************************************************************************)
(* Part 3.  BlingBot and the broker account it trades.                     *)
(*                                                                         *)
(* The methods of BlingBot are operators from a state record to a state    *)
(* record, so that a method that calls another (run -> execute_trade ->    *)
(* get_open_position -> _update_current_value) is one composed step.  The  *)
(* answers of the outside world (the broker, the store, the algorithm)     *)
(* are the operators' extra arguments.                                     *)
(***************************************************************************)

\* Net position plus accepted, unfilled buy orders the broker will carry.
MaxQty == 2

BotId == "bot1"

\* The market values a position can show: InitialValue, half a cent above it
\* (a change below the epsilon), and MaxDelta half cents to either side.
MarketValues ==
  {InitialValue - MaxDelta, InitialValue, InitialValue + 1, InitialValue + MaxDelta}

\* The broker's answer to get_open_position(symbol).
NotFound == [kind |-> "not_found", qty |-> 0, hasMV |-> FALSE, mv |-> 0]

QueryFailed == [kind |-> "error", qty |-> 0, hasMV |-> FALSE, mv |-> 0]

\* No query was made.
NoQuery == [kind |-> "none", qty |-> 0, hasMV |-> FALSE, mv |-> 0]

\* market_value as the broker reports it: negative for a short position.
SignedMarketValue(b) == IF b.qty < 0 THEN 0 - b.mv ELSE b.mv

\* The answers the broker can give in state b: the position (market_value may be
\* missing), "position does not exist" when flat, or a failure of the call itself.
\* On a stale socket every call of the client raises OSError (errno 9).
QueryOutcomes(b) ==
  {QueryFailed} \cup
  (IF b.conn = "stale"
   THEN {}
   ELSE IF b.qty = 0
   THEN {NotFound}
   ELSE {[kind |-> "position", qty |-> b.qty, hasMV |-> h,
          mv |-> IF h THEN SignedMarketValue(b) ELSE 0] : h \in BOOLEAN})

\* What one operation did, as its caller and the broker saw it.
NoObs ==
  [op |-> "init", signal |-> None, reported |-> NoQuery, wasOpen |-> FALSE,
   update |-> "not_called", write |-> "none", submitted |-> "none",
   notional |-> 0, result |-> FALSE, recalculated |-> FALSE,
   cause |-> "not_called", computed |-> None, price |-> None, raised |-> "none",
   guard |-> "not_checked", id |-> None, value |-> 0]

\* The world outside the bot moved since its latest operation.
WorldMoved == [NoObs EXCEPT !.op = "world"]

\* A new operation starts: the observation record is cleared.
Begin(s, name) ==
  [s EXCEPT !.obs = [NoObs EXCEPT !.op = name]]

\* A mutation of Significant: the threshold is twice the epsilon.
CoarselySignificant(new, cur) == Abs(new - cur) > 2 * Eps

\* A mutation of Significant: every update counts, however small.
AlwaysSignificant(new, cur) == TRUE

\* abs(new_value - self.current_value) > 0.01
Significant(new, cur) == Abs(new - cur) > Eps

\* A mutation of UpdateCurrentValue: the store is written first and the memory
\* value follows only a write that went through.
UpdateAfterWrite(s, new, w) ==
  IF Significant(new, s.current_value)
  THEN LET u == UpdateCurrentValueById(s.config_data, s.file, s.bot_id, new, w) IN
       [s EXCEPT !.current_value = IF u.ok THEN new ELSE @,
                 !.config_data = u.mem, !.file = u.file,
                 !.obs.update = "applied", !.obs.write = u.write]
  ELSE [s EXCEPT !.obs.update = "suppressed", !.obs.write = "none"]

\* BlingBot._update_current_value.  update_current_value_by_id catches the
\* exception of a failed save and answers False, which is not looked at.
UpdateCurrentValue(s, new, w) ==
  IF Significant(new, s.current_value)
  THEN LET u == UpdateCurrentValueById(s.config_data, s.file, s.bot_id, new, w) IN
       [s EXCEPT !.current_value = new, !.config_data = u.mem, !.file = u.file,
                 !.obs.update = "applied", !.obs.write = u.write]
  ELSE [s EXCEPT !.obs.update = "suppressed", !.obs.write = "none"]

\* A mutation of PositionValue: the sign of a short position's value is kept.
SignedPositionValue(q) == q.mv

\* new_value = abs(market_value)
PositionValue(q) == Abs(q.mv)

\* A mutation of FlatValue: a flat bot keeps the value of its last position.
KeptValue(s) == s.current_value

\* The value a bot without a position is reset to.
FlatValue(s) == InitialValue

\* BlingBot.get_open_position; the quantity it returns is the current_position
\* it leaves behind.  Every exception of the query takes the except branch.
GetOpenPosition(s, q, w) ==
  LET s0 == [s EXCEPT !.obs.reported = q] IN
  IF q.kind = "position"
  THEN LET s1 == [s0 EXCEPT !.current_position = q.qty] IN
       IF q.hasMV
       THEN UpdateCurrentValue(s1, PositionValue(q), w)
       ELSE [s1 EXCEPT !.obs.update = "not_called", !.obs.write = "none"]
  ELSE UpdateCurrentValue([s0 EXCEPT !.current_position = 0,
                                     !.obs.wasOpen = s.current_position # 0],
                          FlatValue(s), w)

\* BlingBot.close_position: the broker takes the request only when there is a
\* position to close; a refused or failed request is reported as False.
ClosePosition(s, c) ==
  LET taken == c /\ s.broker.conn = "ok" /\ s.broker.qty # 0 IN
  IF taken
  THEN [s EXCEPT !.current_position = 0, !.broker.closing = TRUE,
                 !.obs.submitted = "close", !.obs.result = TRUE]
  ELSE [s EXCEPT !.obs.submitted = "close", !.obs.result = FALSE]

\* A mutation of CanBuy: only a short position holds a buy back.
CanBuyWhenLong(cp) == cp >= 0

\* if current_position == 0: no position, can buy
CanBuy(cp) == cp = 0

\* if current_position > 0: have long position, can sell
CanSell(cp) == cp > 0

\* A mutation of SellAction: a market sell order instead of a close request.
SellByOrder(s, c) == [s EXCEPT !.obs.submitted = "sell", !.obs.result = c]

\* The order execute_trade submits on SELL: none is placed as an order, the
\* position is closed through close_position.
SellAction(s, c) == ClosePosition(s, c)

\* BlingBot.execute_trade(signal); c is whether the broker takes the order or
\* the close request.
ExecuteTrade(s, sig, q, w, c) ==
  LET s1 == GetOpenPosition(s, q, w)
      cp == s1.current_position
      s2 == [s1 EXCEPT !.obs.signal = sig]
  IN
  IF sig = "BUY"
  THEN IF CanBuy(cp)
       THEN LET taken == /\ c /\ s2.broker.conn = "ok"
                         /\ s2.broker.qty + s2.broker.pending < MaxQty
            IN
            [s2 EXCEPT !.broker.pending = IF taken THEN @ + 1 ELSE @,
                       !.obs.submitted = "buy", !.obs.notional = s2.current_value,
                       !.obs.result = taken]
       ELSE [s2 EXCEPT !.obs.result = FALSE]
  ELSE IF sig = "SELL"
  THEN IF CanSell(cp)
       THEN SellAction(s2, c)
       ELSE [s2 EXCEPT !.obs.result = FALSE]
  ELSE [s2 EXCEPT !.obs.result = FALSE]

\* A mutation of ShouldRecalculate: only the first cycle computes a signal.
ShouldRecalculateOnce(s) == s.last_signal_time = "None"

\* BlingBot._should_recalculate
ShouldRecalculate(s) == s.last_signal_time # "recent"

\* A key the dict does not have.
NoKey == "NoKey"

\* self.current_signal or "NONE"
OrNone(sig) == IF sig = None THEN "NONE" ELSE sig

\* What get_current_indicators yields to SmaEmaCrossoverAlgoAgg.get_signal: the
\* indicators with the EMA below the SMA or not below it, nothing, or a value
\* that makes the computation raise.
IndicatorOutcomes == {"below", "not_below", "none", "error"}

\* SmaEmaCrossoverAlgoAgg.get_signal with self.current_signal = cur: the new
\* current_signal and the returned dict.  The dict has no 'price'; the dict
\* returned without indicators has 'signal' only.
AggGetSignal(cur, ind) ==
  IF ind = "below"
  THEN [cur |-> "SELL", ret |-> SignalInfo("SELL", NoKey, "bearish_trend", "bearish")]
  ELSE IF ind = "not_below"
  THEN [cur |-> "BUY", ret |-> SignalInfo("BUY", NoKey, "bullish_trend", "bullish")]
  ELSE IF ind = "none"
  THEN [cur |-> cur, ret |-> SignalInfo(OrNone(cur), NoKey, NoKey, NoKey)]
  ELSE [cur |-> cur, ret |-> SignalInfo(OrNone(cur), None, "error", NoKey)]

\* Rows of the frame one cycle fetches.
MaxFrame == 3

\* One row of each kind the detector tells apart: EMA above the SMA, EMA not
\* above it (a tie), and the SMA warm-up.
CycleRows == {[ema |-> 2, sma |-> 1], [ema |-> 1, sma |-> 1], [ema |-> 1, sma |-> NaN]}

\* The frames fetch_aggregates can hand to one cycle.
CycleFrames == UNION {[1..n -> CycleRows] : n \in 0..MaxFrame}

\* The algorithms from_config_id registers.
Algorithms == {"sma_ema_crossover", "sma_ema_crossover_agg"}

\* What self.algo.get_signal can answer in state s: the algorithm's new
\* current_signal and the dict it returns.
AlgoAnswers(s) ==
  IF s.algorithm = "sma_ema_crossover"
  THEN {AlgoGetSignal(s.current_signal, df, o) : df \in CycleFrames, o \in FetchOutcomes}
  ELSE {AggGetSignal(s.current_signal, i) : i \in IndicatorOutcomes}

\* The algorithm is called and its answer a noted.
Computed(s, a) ==
  [s EXCEPT !.current_signal = a.cur,
            !.obs.cause = a.ret.reason, !.obs.computed = a.ret.signal]

\* A mutation of BotGetSignal: the signal is returned and not cached.
BotGetSignalUncached(s, a) ==
  [state |-> Computed(s, a),
   signal |-> IF a.ret.reason = NoKey THEN "SELL" ELSE a.ret.signal]

\* BlingBot.get_signal: the state it leaves and the signal of the dict it
\* returns.  The dict is cached before its 'reason' is read for the log line,
\* and a dict without 'reason' ends in the except branch, which returns SELL.
BotGetSignal(s, a) ==
  LET s1 == [Computed(s, a) EXCEPT !.cached_signal = a.ret.signal,
                                   !.last_signal_time = "recent"]
  IN
  IF a.ret.reason = NoKey
  THEN [state |-> s1, signal |-> "SELL"]
  ELSE [state |-> [s1 EXCEPT !.obs.price = IF a.ret.price = NoKey THEN None ELSE a.ret.price],
        signal |-> a.ret.signal]

\* A mutation of CachedOrFresh: the cached signal is never trusted.
AlwaysFresh(s, a) == BotGetSignal(s, a)

\* BlingBot.get_cached_signal
CachedOrFresh(s, a) ==
  IF s.cached_signal = None
  THEN BotGetSignal(s, a)
  ELSE [state |-> s, signal |-> s.cached_signal]

\* BlingBot.run: one trading cycle.  e holds the answers of the outside world:
\* q1, w1 to the first refresh, a to the algorithm, q2, w2, c to execute_trade.
\* Every method run() calls catches its own exceptions, so the except branch
\* of run() is not taken and run() returns a dict: obs.raised stays "none".
Run(s, e) ==
  LET s1 == GetOpenPosition(s, e.q1, e.w1) IN
  IF ~ShouldRecalculate(s1)
  THEN LET g == CachedOrFresh(s1, e.a)
       IN [g.state EXCEPT !.obs.signal = g.signal, !.obs.result = FALSE,
                          !.obs.recalculated = FALSE]
  ELSE LET g == BotGetSignal(s1, e.a)
           s3 == ExecuteTrade(g.state, g.signal, e.q2, e.w2, e.c)
       IN [s3 EXCEPT !.obs.recalculated = TRUE]

\* The state record of the operators, read from the variables.
Now ==
  [bot_id |-> BotId, current_value |-> current_value, current_position |-> current_position,
   cached_signal |-> cached_signal, last_signal_time |-> last_signal_time,
   config_data |-> config_data, file |-> file, broker |-> broker, obs |-> obs,
   algorithm |-> algorithm, current_signal |-> current_signal]

\* The variables of the bot and of its algorithm take the values of s.
Assign(s) ==
  /\ UNCHANGED <<bars, ret, lastLen, upAt, storeVars, algorithm, indVars, saveVars>>
  /\ current_signal' = s.current_signal
  /\ current_value' = s.current_value
  /\ current_position' = s.current_position
  /\ cached_signal' = s.cached_signal
  /\ last_signal_time' = s.last_signal_time
  /\ config_data' = s.config_data
  /\ file' = s.file
  /\ broker' = s.broker
  /\ obs' = s.obs

\* An operation of the bot outside run_bot's loop.
Becomes(s) == Assign(s) /\ UNCHANGED session

\* A mutation of PersistedOrInitial: the stored field is read as it is.
PersistedUnchecked(disk, id) == GetCurrentValueById(disk, id)

\* The current_value a new BlingBot starts with: the persisted value if the
\* store has one for the identity, otherwise initial_value.
PersistedOrInitial(disk, id) ==
  IF GetCurrentValueById(disk, id) # NoValue
  THEN GetCurrentValueById(disk, id) ELSE InitialValue

\* The store at start-up: no entry for the bot, an entry without current_value,
\* or an entry holding a value persisted by an earlier session (whole cents).
StartConfigs ==
  {<< >>} \cup
  {[i \in {BotId} |-> v] :
     v \in {NoValue} \cup {m \in MarketValues : m % 2 = 0}}

\* The account at start-up: flat, or short through some other strategy.
\* A long position is what the bot's own filled buy orders make.
StartBrokers ==
  {[qty |-> 0, mv |-> 0, pending |-> 0, closing |-> FALSE, conn |-> "ok"]} \cup
  {[qty |-> 0 - 1, mv |-> InitialValue, pending |-> 0, closing |-> FALSE, conn |-> "ok"]}

\* BlingBot.__init__: current_value is the persisted value if there is one.
BotInit ==
  /\ file \in StartConfigs
  /\ config_data = file
  /\ current_value = PersistedOrInitial(file, BotId)
  /\ current_position = 0
  /\ cached_signal = None
  /\ last_signal_time = "None"
  /\ broker \in StartBrokers
  /\ obs = NoObs

\* The process restarts: a new BlingBot, with a new ConfigManager that loads
\* the file, is constructed for the same identity on the same account.
Restart ==
  /\ obs.op \notin {"init", "restart"}
  /\ Becomes([Now EXCEPT !.config_data = file,
                         !.current_value = PersistedOrInitial(file, BotId),
                         !.current_position = 0,
                         !.cached_signal = None,
                         !.last_signal_time = "None",
                         !.current_signal = None,
                         !.obs = [NoObs EXCEPT !.op = "restart"]])

\* The store outcomes that matter to a refresh answered by q: none when the
\* update is suppressed or the bot has no entry, no rounding on whole cents.
WritesFor(s, q) ==
  LET new == IF q.kind = "position" THEN Abs(q.mv) ELSE InitialValue IN
  IF (q.kind = "position" /\ ~q.hasMV)
       \/ ~Significant(new, s.current_value) \/ BotId \notin DOMAIN s.config_data
  THEN {[ok |-> TRUE, up |-> FALSE]}
  ELSE IF new % 2 = 0 THEN [ok : BOOLEAN, up : {FALSE}] ELSE WriteOutcomes

\* The broker's answers that matter to execute_trade(sig) after a query answered
\* by q: both when an order or a close request goes out, one otherwise.
AnswersFor(sig, q) ==
  IF (sig = "BUY" /\ CanBuy(q.qty)) \/ (sig = "SELL" /\ CanSell(q.qty))
  THEN BOOLEAN ELSE {FALSE}

\* No session is driven, and the algorithm is the default one.
RunIdle ==
  /\ algorithm = "sma_ema_crossover"
  /\ session = "new"

\* A bot that is constructed and left alone.
BotIdle ==
  /\ file = << >>
  /\ config_data = file
  /\ current_value = InitialValue
  /\ current_position = 0
  /\ cached_signal = None
  /\ last_signal_time = "None"
  /\ broker = [qty |-> 0, mv |-> 0, pending |-> 0, closing |-> FALSE, conn |-> "ok"]
  /\ obs = NoObs

\* get_open_position called on its own (get_current_equity does so).
DoGetOpenPosition ==
  \E q \in QueryOutcomes(broker) : \E w \in WritesFor(Now, q) :
    Becomes(GetOpenPosition(Begin(Now, "get_open_position"), q, w))

DoExecuteTrade ==
  \E sig \in {"BUY", "SELL", "NONE"}, q \in QueryOutcomes(broker) :
    \E w \in WritesFor(Now, q), c \in AnswersFor(sig, q) :
    Becomes(ExecuteTrade(Begin(Now, "execute_trade"), sig, q, w, c))

\* close_position called on its own (run_bot does so when the session ends).
DoClosePosition ==
  \E c \in BOOLEAN : Becomes(ClosePosition(Begin(Now, "close_position"), c))

\* Whether run() on s, its first query answered by q1, goes on to trade.
Recalculates(s, q1, w1) == ShouldRecalculate(GetOpenPosition(s, q1, w1))

\* The algorithm's answers that matter: all of them when run() calls it.
AlgoFor(s, q1, w1) ==
  LET s1 == GetOpenPosition(s, q1, w1) IN
  IF ShouldRecalculate(s1) \/ s1.cached_signal = None
  THEN AlgoAnswers(s1)
  ELSE {[cur |-> s1.current_signal, ret |-> NoRet]}

\* run() in state s once its first refresh and the algorithm have answered:
\* the second query, its write and the broker's answer are drawn only when the
\* cycle recalculates.
RunTail(s, q1, w1, a) ==
  LET trades == Recalculates(s, q1, w1)
      g == BotGetSignal(GetOpenPosition(s, q1, w1), a)
  IN UNION {
       {Run(Begin(s, "run"),
            [q1 |-> q1, w1 |-> w1, a |-> a, q2 |-> q2, w2 |-> w2, c |-> c]) :
          w2 \in (IF trades THEN WritesFor(g.state, q2) ELSE {[ok |-> TRUE, up |-> FALSE]}),
          c \in (IF trades THEN AnswersFor(g.signal, q2) ELSE {FALSE})} :
       q2 \in (IF trades THEN QueryOutcomes(s.broker) ELSE {q1})}

\* The states one run() can leave from state s, over every answer of the
\* outside world that matters.
RunResults(s) ==
  UNION {UNION {UNION {RunTail(s, q1, w1, a) : a \in AlgoFor(s, q1, w1)} :
                  w1 \in WritesFor(s, q1)} :
           q1 \in QueryOutcomes(s.broker)}

\* One run() called on its own.
DoRun == \E r \in RunResults(Now) : Becomes(r)

\* The broker fills an accepted buy order.
FillBuy ==
  /\ broker.pending > 0
  /\ \E m \in MarketValues :
       broker' = [broker EXCEPT !.pending = @ - 1, !.qty = @ + 1,
                                !.mv = IF broker.qty + 1 = 0 THEN 0 ELSE m]
  /\ obs' = WorldMoved
  /\ UNCHANGED <<current_value, current_position, cached_signal, last_signal_time,
                 config_data, file, detVars, storeVars, runVars, indVars, saveVars>>

\* The broker carries out a close request: the whole position goes.
FillClose ==
  /\ broker.closing
  /\ broker' = [broker EXCEPT !.closing = FALSE, !.qty = 0, !.mv = 0]
  /\ obs' = WorldMoved
  /\ UNCHANGED <<current_value, current_position, cached_signal, last_signal_time,
                 config_data, file, detVars, storeVars, runVars, indVars, saveVars>>

\* The position's market value becomes m.
MarketMoveTo(m) ==
  /\ broker.qty # 0
  /\ m # broker.mv
  /\ broker' = [broker EXCEPT !.mv = m]
  /\ obs' = WorldMoved
  /\ UNCHANGED <<current_value, current_position, cached_signal, last_signal_time,
                 config_data, file, detVars, storeVars, runVars, indVars, saveVars>>

\* The market moves while a position is open.
MarketMove == \E m \in MarketValues : MarketMoveTo(m)

\* interval_minutes pass since the signal was last computed.
IntervalElapses ==
  /\ last_signal_time = "recent"
  /\ last_signal_time' = "stale"
  /\ obs' = WorldMoved
  /\ UNCHANGED <<current_value, current_position, cached_signal,
                 config_data, file, broker, detVars, storeVars, runVars, indVars, saveVars>>

\* The position controller and the capital tracker under a moving market.
BotNext ==
  \/ DoGetOpenPosition
  \/ DoExecuteTrade
  \/ DoClosePosition
  \/ Restart
  \/ FillBuy
  \/ FillClose
  \/ MarketMove

\* Whole trading cycles on a flat or a short account.
CycleNext ==
  \/ DoRun
  \/ IntervalElapses
  \/ FillBuy
  \/ FillClose

(***************************************************************************)
(* Part 3b.  run_bot: the session loop around the cycles.                  *)
(*                                                                         *)
(* One tick is one pass of the while loop: the market check, the risk      *)
(* guard, then bot.run(); a pass that leaves the loop also makes the       *)
(* close_position call that follows the loop.                              *)
(***************************************************************************)

\* daily_pnl_threshold = -0.05 and daily_gain_target = 0.10, in percent.
LossPercent == 5

GainPercent == 10

\* The capital on the loss limit and on the gain target.
LossLimit == InitialValue - (LossPercent * InitialValue) \div 100

GainLimit == InitialValue + (GainPercent * InitialValue) \div 100

\* Market values a cent to either side of the two limits, and on them.
GuardValues ==
  {LossLimit - Eps, LossLimit, LossLimit + Eps, GainLimit - Eps, GainLimit}

\* A mutation of ShouldHalt: the two bounds are exclusive.
ShouldHaltStrict(s) ==
  \/ 100 * (s.current_value - InitialValue) < (0 - LossPercent) * InitialValue
  \/ 100 * (s.current_value - InitialValue) > GainPercent * InitialValue

\* pnl <= bot.daily_pnl_threshold or pnl >= bot.daily_gain_target, with
\* pnl = (current_value - initial_value) / initial_value.
ShouldHalt(s) ==
  \/ 100 * (s.current_value - InitialValue) <= (0 - LossPercent) * InitialValue
  \/ 100 * (s.current_value - InitialValue) >= GainPercent * InitialValue

\* BlingBot.reconnect: a new TradingClient.
Reconnect(s) == [s EXCEPT !.broker.conn = "ok"]

\* A mutation of LeaveLoop: the loop is left without any close request.
LeaveLoopWithoutClose(s, c1, c2) == s

\* The loop is left: close_position in the loop, break, and close_position
\* again after the loop.
LeaveLoop(s, c1, c2) == ClosePosition(ClosePosition(s, c1), c2)

\* A mutation of HaltedSession: the thread goes round the loop again.
HaltedSessionGoesOn == "active"

\* trading_active = False; break: the thread's loop is over.
HaltedSession == "over"

\* bot.run() inside the try of run_bot: an OSError with errno 9 that run()
\* raises is answered by reconnect().
Cycled(r) ==
  LET t == [r EXCEPT !.obs.op = "tick", !.obs.guard = "pass"] IN
  IF r.obs.raised = "OSError9" THEN Reconnect(t) ELSE t

\* One pass of run_bot's loop in state s: the state it leaves and whether the
\* loop goes on.
TickResults(s, open) ==
  IF ~open
  THEN {[state |-> LeaveLoop([Begin(s, "tick") EXCEPT !.obs.guard = "closed"], c1, c2),
         session |-> "over"] : c1 \in BOOLEAN, c2 \in BOOLEAN}
  ELSE IF ShouldHalt(s)
  THEN {[state |-> LeaveLoop([Begin(s, "tick") EXCEPT !.obs.guard = "halt"], c1, c2),
         session |-> HaltedSession] : c1 \in BOOLEAN, c2 \in BOOLEAN}
  ELSE {[state |-> Cycled(r), session |-> "active"] : r \in RunResults(s)}

\* run_bot starts: get_current_equity refreshes the position for the log line.
SessionStart ==
  /\ session = "new"
  /\ session' = "active"
  /\ \E q \in QueryOutcomes(broker) : \E w \in WritesFor(Now, q) :
       Assign(GetOpenPosition(Begin(Now, "get_open_position"), q, w))

Tick ==
  /\ session = "active"
  /\ \E open \in BOOLEAN : \E t \in TickResults(Now, open) :
       Assign(t.state) /\ session' = t.session

\* The market takes the position to one of the limits or next to it.
GuardMove == \E m \in GuardValues : MarketMoveTo(m)

\* The client's socket goes stale.
ConnectionDrops ==
  /\ broker.conn = "ok"
  /\ broker' = [broker EXCEPT !.conn = "stale"]
  /\ obs' = WorldMoved
  /\ UNCHANGED <<current_value, current_position, cached_signal, last_signal_time,
                 config_data, file, detVars, storeVars, runVars, indVars, saveVars>>

SessionNext ==
  \/ SessionStart
  \/ Tick
  \/ IntervalElapses
  \/ FillBuy
  \/ FillClose
  \/ GuardMove
  \/ ConnectionDrops

(***************************************************************************)
(* Part 3c.  Start-up: from_config_id and run_multiple_bots.               *)
(*                                                                         *)
(* run_multiple_bots builds each bot through from_config_id inside a try;  *)
(* a bot whose construction raises is logged and left out of the list of   *)
(* bots, so that no thread and no run_bot loop is started for it.          *)
(***************************************************************************)

\* The 'algorithm' entries a bot's config can hold: a registered name, no
\* entry at all, or a name that is not registered.
ConfigAlgorithms == Algorithms \cup {NoKey, "martingale"}

\* bot_config.get('algorithm', 'sma_ema_crossover')
AlgorithmName(entry) == IF entry = NoKey THEN "sma_ema_crossover" ELSE entry

\* A mutation of ConfigError: an unregistered algorithm name is let through.
ConfigErrorLenient(disk, id, entry, creds) ==
  IF id \notin DOMAIN disk THEN "ValueError"
  ELSE IF ~creds THEN "ValueError"
  ELSE "none"

\* What from_config_id raises: ValueError for an id the config does not list,
\* for an algorithm name outside algorithm_map, and (from __init__) for missing
\* credentials; nothing otherwise.
ConfigError(disk, id, entry, creds) ==
  IF id \notin DOMAIN disk THEN "ValueError"
  ELSE IF AlgorithmName(entry) \notin Algorithms THEN "ValueError"
  ELSE IF ~creds THEN "ValueError"
  ELSE "none"

\* create_bot_from_config_id(bot_id) inside the try of run_multiple_bots: the
\* bot is constructed and joins the list of bots, or the exception is logged
\* and the bot is left out.
FromConfigId(creds) ==
  LET err == ConfigError(file, BotId, algorithm, creds) IN
  /\ session = "unbuilt"
  /\ obs' = [NoObs EXCEPT !.op = "from_config_id", !.raised = err]
  /\ IF err # "none"
     THEN /\ session' = "rejected"
          /\ UNCHANGED <<algorithm, config_data, current_value>>
     ELSE /\ session' = "new"
          /\ algorithm' = AlgorithmName(algorithm)
          /\ config_data' = file
          /\ current_value' = PersistedOrInitial(file, BotId)
  /\ UNCHANGED <<current_position, cached_signal, last_signal_time, file, broker,
                 detVars, storeVars, indVars, saveVars>>

\* The system from its start: the bot is built, then its thread runs run_bot
\* up to the end of the first recompute interval.
LaunchNext ==
  \/ \E creds \in BOOLEAN : FromConfigId(creds)
  \/ SessionStart
  \/ Tick
  \/ FillBuy
  \/ FillClose

(***************************************************************************)
(* Part 3d.  A ConfigManager used on its own, as test_id_integration.py    *)
(* does: values are stored and read back by id, and a new manager is       *)
(* constructed on the same file.                                           *)
(***************************************************************************)

\* The values a caller stores: whole cents and half cents around InitialValue.
ConfigValues == {InitialValue + d : d \in (0 - MaxDelta)..MaxDelta}

\* The ids a caller asks for: the bot the file may list, and one it never lists.
ConfigIds == {BotId, "bot9"}

\* manager.update_current_value_by_id(id, v)
ManagerUpdate(id, v, w) ==
  LET u == UpdateCurrentValueById(config_data, file, id, v, w) IN
  /\ config_data' = u.mem
  /\ file' = u.file
  /\ obs' = [NoObs EXCEPT !.op = "update_current_value_by_id", !.id = id,
                          !.value = v, !.result = u.ok, !.write = u.write]
  /\ UNCHANGED <<current_value, current_position, cached_signal, last_signal_time,
                 broker, detVars, storeVars, runVars, indVars, saveVars>>

\* ConfigManager(path): a new manager, whose load_config reads the file.
ManagerLoad ==
  /\ config_data # file
  /\ config_data' = file
  /\ obs' = [NoObs EXCEPT !.op = "load_config"]
  /\ UNCHANGED <<current_value, current_position, cached_signal, last_signal_time,
                 file, broker, detVars, storeVars, runVars, indVars, saveVars>>

\* The symbols a caller asks for: the listed bot's, and one no entry has.
ConfigSymbols == {SymbolOf(BotId), "IWM"}

\* manager.update_current_value(symbol, v)
ManagerUpdateBySymbol(sym, v, w) ==
  LET u == UpdateCurrentValueBySymbol(config_data, file, sym, v, w) IN
  /\ config_data' = u.mem
  /\ file' = u.file
  /\ obs' = [NoObs EXCEPT !.op = "update_current_value", !.id = sym,
                          !.value = v, !.result = u.ok, !.write = u.write]
  /\ UNCHANGED <<current_value, current_position, cached_signal, last_signal_time,
                 broker, detVars, storeVars, runVars, indVars, saveVars>>

ConfigNext ==
  \/ \E id \in ConfigIds, v \in ConfigValues, w \in WriteOutcomes : ManagerUpdate(id, v, w)
  \/ \E sym \in ConfigSymbols, v \in ConfigValues, w \in WriteOutcomes :
       ManagerUpdateBySymbol(sym, v, w)
  \/ ManagerLoad

(***************************************************************************)
(* Part 4.  Two BlingBot instances on one config file.                     *)
(*                                                                         *)
(* run_multiple_bots builds one BlingBot per id; each constructs its own   *)
(* ConfigManager, which loads the whole file once and from then on writes  *)
(* its own config_data back in full.                                       *)
(***************************************************************************)

Bots == {"bot1", "bot2"}

\* Both bots are constructed from the same file.
StoreInit ==
  /\ store_file \in [Bots -> {NoValue, InitialValue}]
  /\ store_mem = [b \in Bots |-> store_file]
  /\ store_cv = [b \in Bots |->
                   IF GetCurrentValueById(store_file, b) # NoValue
                   THEN GetCurrentValueById(store_file, b) ELSE InitialValue]
  /\ store_last = [b \in Bots |-> NoValue]

\* One of the start states, for the specifications that leave the pair alone.
StoreInitOne == StoreInit /\ store_file = [b \in Bots |-> NoValue]

\* Bot b's _update_current_value(new), as a refresh of its position calls it.
StorePersist(b, new, w) ==
  LET s == [bot_id |-> b, current_value |-> store_cv[b],
            config_data |-> store_mem[b], file |-> store_file, obs |-> NoObs]
      r == UpdateCurrentValue(s, new, w)
  IN
  /\ store_cv' = [store_cv EXCEPT ![b] = r.current_value]
  /\ store_mem' = [store_mem EXCEPT ![b] = r.config_data]
  /\ store_file' = r.file
  /\ store_last' = IF r.obs.write = "ok"
                   THEN [store_last EXCEPT ![b] = r.file[b]]
                   ELSE store_last
  /\ UNCHANGED <<detVars, botVars, runVars, indVars, saveVars>>

StoreNext ==
  \E b \in Bots, new \in MarketValues, w \in WriteOutcomes : StorePersist(b, new, w)

(***************************************************************************)
(* Part 4b.  save_config at the level of the file.                         *)
(*                                                                         *)
(* open(path, 'w') empties the file and gives the thread a descriptor with *)
(* its own offset 0; json.dump hands the text to the descriptor, which     *)
(* writes it out at the thread's offset in one piece or in several; the    *)
(* end of the with block closes it.  Nothing orders the threads of two     *)
(* bots, so their opens and writes fall in any order.                      *)
(***************************************************************************)

\* The length of a snapshot, in pieces of text.
MaxSnap == 3

\* A byte no thread wrote: what a write past the end of the file leaves
\* before it.
Nul == [by |-> "nobody", at |-> 0]

\* The text json.dump makes of the config_data of b's manager: n pieces.
Snapshot(b, n) == [i \in 1..n |-> [by |-> b, at |-> i]]

\* The file after n pieces of text are written at offset pos.
WrittenAt(disk, text, pos, n) ==
  LET end == IF Len(disk) > pos + n THEN Len(disk) ELSE pos + n IN
  [i \in 1..end |->
     IF i \in (pos + 1)..(pos + n) THEN text[i]
     ELSE IF i <= Len(disk) THEN disk[i] ELSE Nul]

\* No thread saves; the file holds what an earlier save left.
SaveIdle ==
  /\ save_file = Snapshot("earlier", 1)
  /\ save_thread = [b \in Bots |-> [pc |-> "idle", pos |-> 0, len |-> 1]]

\* with open(self.config_path, 'w') as f: the file is emptied.
SaveOpen(b) ==
  /\ save_thread[b].pc = "idle"
  /\ save_file' = << >>
  /\ save_thread' = [save_thread EXCEPT ![b].pc = "open", ![b].pos = 0]
  /\ UNCHANGED <<detVars, botVars, storeVars, runVars, indVars>>

\* json.dump(self.config_data, f, indent=2): the next n pieces go out.
SaveWrite(b, n) ==
  /\ save_thread[b].pc = "open"
  /\ n \in 1..(save_thread[b].len - save_thread[b].pos)
  /\ save_file' = WrittenAt(save_file, Snapshot(b, save_thread[b].len),
                            save_thread[b].pos, n)
  /\ save_thread' = [save_thread EXCEPT ![b].pos = @ + n]
  /\ UNCHANGED <<detVars, botVars, storeVars, runVars, indVars>>

\* The with block ends once the whole text is out.
SaveClose(b) ==
  /\ save_thread[b].pc = "open"
  /\ save_thread[b].pos = save_thread[b].len
  /\ save_thread' = [save_thread EXCEPT ![b].pc = "done"]
  /\ UNCHANGED <<save_file, detVars, botVars, storeVars, runVars, indVars>>

SaveNext ==
  \/ \E b \in Bots : SaveOpen(b)
  \/ \E b \in Bots, n \in 1..MaxSnap : SaveWrite(b, n)
  \/ \E b \in Bots : SaveClose(b)

\* The threads of two bots, each about to save a snapshot of some length.
InitSave ==
  /\ save_file = Snapshot("earlier", 1)
  /\ save_thread \in [Bots -> [pc : {"idle"}, pos : {0}, len : 1..MaxSnap]]
  /\ DetInit /\ BotIdle /\ StoreInitOne /\ RunIdle /\ SmaIdle

vars == <<detVars, botVars, storeVars, runVars, indVars, saveVars>>

\* A detector just constructed; no bot trades and no store is written.
InitDet == DetInit /\ BotIdle /\ StoreInitOne /\ RunIdle /\ SmaIdle /\ SaveIdle

\* The detector alone.
SpecDet == InitDet /\ [][DetNext]_vars

\* The look-back of the detector alone.
SpecLookBack == InitDet /\ [][LookBackNext]_vars

\* A BlingBot just constructed on its store entry and its broker account.
Init == BotInit /\ DetInit /\ StoreInitOne /\ RunIdle /\ SmaIdle /\ SaveIdle

\* One BlingBot, its store entry and its broker account.
Spec == Init /\ [][BotNext]_vars

\* A BlingBot just constructed on either algorithm, without a store entry.
InitCycle ==
  /\ BotIdle /\ DetInit /\ StoreInitOne /\ SmaIdle /\ SaveIdle
  /\ algorithm \in Algorithms
  /\ session = "new"

\* One BlingBot driven through run() only.
SpecCycle == InitCycle /\ [][CycleNext]_vars

\* run() has just submitted a buy order.
BuyAttempted == obs.op = "run" /\ obs.submitted = "buy"

\* The buy order of the run() just made was taken.
AcceptedBuy == BuyAttempted /\ obs.result

\* The cycles under fairness: time goes on, so every recompute interval ends;
\* run_bot sleeps check_interval and calls run() again, for ever while the
\* market is open; and a broker that is sent buy orders again and again does
\* take one at last.
SpecCycleFair ==
  /\ InitCycle /\ [][CycleNext]_vars
  /\ WF_vars(IntervalElapses)
  /\ []<>(obs.op = "run")
  /\ ([]<>BuyAttempted => []<>AcceptedBuy)

\* run_bot driving one BlingBot from its start to the end of the session.
SpecSession == InitCycle /\ [][SessionNext]_vars

\* Before run_multiple_bots has built the bot: the config file lists the bot or
\* does not, with any 'algorithm' entry, and the account is flat.
InitLaunch ==
  /\ file \in StartConfigs
  /\ config_data = file
  /\ current_value = InitialValue
  /\ current_position = 0
  /\ cached_signal = None
  /\ last_signal_time = "None"
  /\ broker = [qty |-> 0, mv |-> 0, pending |-> 0, closing |-> FALSE, conn |-> "ok"]
  /\ obs = NoObs
  /\ DetInit /\ StoreInitOne /\ SmaIdle /\ SaveIdle
  /\ algorithm \in ConfigAlgorithms
  /\ session = "unbuilt"

\* run_multiple_bots: the bot is built from its config, then run_bot drives it.
SpecLaunch == InitLaunch /\ [][LaunchNext]_vars

\* A ConfigManager just constructed on a file that lists the bot or does not.
InitConfig ==
  /\ file \in StartConfigs
  /\ config_data = file
  /\ current_value = InitialValue
  /\ current_position = 0
  /\ cached_signal = None
  /\ last_signal_time = "None"
  /\ broker = [qty |-> 0, mv |-> 0, pending |-> 0, closing |-> FALSE, conn |-> "ok"]
  /\ obs = NoObs
  /\ DetInit /\ StoreInitOne /\ RunIdle /\ SmaIdle /\ SaveIdle

\* One ConfigManager and the managers constructed after it on the same file.
SpecConfig == InitConfig /\ [][ConfigNext]_vars

\* An algorithm constructed with some SMA period, before any data.
InitSma ==
  /\ closes = << >>
  /\ sma_period \in 1..MaxPeriod
  /\ sma_21 = << >>
  /\ DetInit /\ BotIdle /\ StoreInitOne /\ RunIdle /\ SaveIdle

\* calculate_sma over a growing price series.
SpecSma == InitSma /\ [][SmaNext]_vars

\* Two BlingBot instances just constructed on one file.
InitStore == StoreInit /\ DetInit /\ BotIdle /\ RunIdle /\ SmaIdle /\ SaveIdle

\* Two bots persisting into one file.
SpecStore == InitStore /\ [][StoreNext]_vars

\* Two threads in save_config on one file.
SpecSave == InitSave /\ [][SaveNext]_vars

(***************************************************************************)
(* Part 3e.  TradingBot: the bot of trading_bot.py on the same account.    *)
(*                                                                         *)
(* TradingBot keeps no store: current_value follows the position's market  *)
(* value with no epsilon.  broker.pending counts its accepted, unfilled    *)
(* orders: above zero for buy orders, below zero for sell orders.          *)
(***************************************************************************)

\* The prices a signal dict can carry, in half cents: none (or not positive),
\* a price the capital can pay, and one it cannot.
TraderPrices == {0, InitialValue \div 10, 2 * InitialValue}

\* What self.algo.get_signal yields to TradingBot.get_signal: a dict with
\* BUY or SELL and a price, or an exception.
TraderAnswers ==
  {[signal |-> sg, price |-> p, raised |-> FALSE] :
     sg \in {"BUY", "SELL"}, p \in TraderPrices}
  \cup {[signal |-> "ERROR", price |-> 0, raised |-> TRUE]}

\* TradingBot.get_open_position, and _update_position_info, which does the
\* same: the position's quantity and abs(market_value), or 0 and
\* initial_value on any exception of the query.
TraderGetOpenPosition(s, q) ==
  IF q.kind = "position"
  THEN [s EXCEPT !.current_position = q.qty,
                 !.current_value = IF q.hasMV THEN Abs(q.mv) ELSE @]
  ELSE [s EXCEPT !.current_position = 0, !.current_value = InitialValue]

\* TradingBot.get_signal: the dict is cached and the time noted; an exception
\* of the algorithm is answered by an ERROR dict and nothing is noted.
TraderGetSignal(s, a) ==
  IF a.raised
  THEN [state |-> s, signal |-> "ERROR", price |-> 0]
  ELSE [state |-> [s EXCEPT !.cached_signal = a.signal, !.last_signal_time = "recent"],
        signal |-> a.signal, price |-> a.price]

\* int(available_value / signal['price']) with available_value = 0.9 * current_value
SharesToTrade(cv, price) == (9 * cv) \div (10 * price)

\* if current_position >= 0:  # Not short, can buy
TraderCanBuy(cp) == cp >= 0

\* Accepted, unfilled sell orders, and net short position with them, the broker
\* will carry.
MaxShort == 1

\* A market order goes to the broker; c is whether the broker takes it.  A
\* refused order raises, and execute_trade answers False.
TraderSubmit(s, side, c) ==
  LET b == s.broker
      taken == /\ c /\ b.conn = "ok"
               /\ IF side = "buy"
                  THEN b.pending \in 0..(MaxQty - 1) /\ b.qty + b.pending < MaxQty
                  ELSE b.pending \in (1 - MaxShort)..0 /\ b.qty + b.pending > 0 - MaxShort
  IN [s EXCEPT !.broker.pending =
                  IF ~taken THEN @ ELSE IF side = "buy" THEN @ + 1 ELSE @ - 1,
               !.obs.submitted = side,
               !.obs.result = taken]

\* TradingBot.execute_trade(signal); obs.reported notes the answer to its
\* query without the market value.
TraderExecuteTrade(s, sig, price, q, c) ==
  LET s1 == [TraderGetOpenPosition(s, q) EXCEPT !.obs.reported = [q EXCEPT !.mv = 0],
                                                !.obs.signal = sig]
      cp == s1.current_position
      no == [s1 EXCEPT !.obs.result = FALSE]
  IN
  IF sig \in {"ERROR", "NONE"} THEN no
  ELSE IF price <= 0 THEN no
  ELSE IF SharesToTrade(s1.current_value, price) <= 0 THEN no
  ELSE IF sig = "BUY"
  THEN IF TraderCanBuy(cp) THEN TraderSubmit(s1, "buy", c) ELSE ClosePosition(s1, c)
  ELSE IF sig = "SELL"
  THEN IF cp > 0 THEN ClosePosition(s1, c)
       ELSE IF cp = 0 THEN TraderSubmit(s1, "sell", c)
       ELSE no
  ELSE no

\* TradingBot.run: one trading cycle.  e holds the answers of the outside
\* world: q1 to _update_position_info, a to the algorithm, q2 and c to
\* execute_trade, q3 to the refresh calculate_pnl makes for the returned dict.
TraderRun(s, e) ==
  LET s1 == TraderGetOpenPosition(s, e.q1) IN
  IF ~ShouldRecalculate(s1)
  THEN LET g == IF s1.cached_signal = None
                THEN TraderGetSignal(s1, e.a)
                ELSE [state |-> s1, signal |-> s1.cached_signal, price |-> 0]
       IN TraderGetOpenPosition(
            [g.state EXCEPT !.obs.signal = g.signal, !.obs.result = FALSE,
                            !.obs.recalculated = FALSE], e.q3)
  ELSE LET g == TraderGetSignal(s1, e.a)
           s3 == TraderExecuteTrade(g.state, g.signal, g.price, e.q2, e.c)
       IN TraderGetOpenPosition([s3 EXCEPT !.obs.recalculated = TRUE], e.q3)

\* The states one TradingBot.run() can leave from state s.
TraderRunResults(s) ==
  {TraderRun(Begin(s, "run"), e) :
     e \in [q1 : QueryOutcomes(s.broker), a : TraderAnswers,
            q2 : QueryOutcomes(s.broker), c : BOOLEAN, q3 : QueryOutcomes(s.broker)]}

DoTraderRun == \E r \in TraderRunResults(Now) : Becomes(r)

\* The market values a position of the TradingBot is filled at.
TraderValues == {InitialValue, InitialValue + MaxDelta}

\* The broker fills an accepted buy order (pending > 0) or sell order
\* (pending < 0) of the TradingBot.
FillOrder ==
  /\ broker.pending # 0
  /\ \E m \in TraderValues :
       LET d == IF broker.pending > 0 THEN 1 ELSE 0 - 1 IN
       broker' = [broker EXCEPT !.pending = @ - d, !.qty = @ + d,
                                !.mv = IF broker.qty + d = 0 THEN 0 ELSE m]
  /\ obs' = WorldMoved
  /\ UNCHANGED <<current_value, current_position, cached_signal, last_signal_time,
                 config_data, file, detVars, storeVars, runVars, indVars, saveVars>>

\* One TradingBot driven through run() while its orders are filled at the
\* market's price.
TraderNext ==
  \/ DoTraderRun
  \/ IntervalElapses
  \/ FillOrder
  \/ FillClose

\* A TradingBot just constructed on a flat account.
InitTrader == BotIdle /\ DetInit /\ StoreInitOne /\ RunIdle /\ SmaIdle /\ SaveIdle

SpecTrader == InitTrader /\ [][TraderNext]_vars

(***************************************************************************)
(* Part 5.  The properties.                                                *)
(***************************************************************************)

\* The last two rows of df are valid and go from "EMA above SMA" to "not above".
DownCrossAtEnd(df) ==
  /\ Len(df) >= 2
  /\ ~IsNaN(df[Len(df) - 1]) /\ ~IsNaN(df[Len(df)])
  /\ df[Len(df) - 1].ema > df[Len(df) - 1].sma
  /\ ~(df[Len(df)].ema > df[Len(df)].sma)

\* The last two rows of df are valid and go from "not above" to "EMA above SMA".
UpCrossAtEnd(df) ==
  /\ Len(df) >= 2
  /\ ~IsNaN(df[Len(df) - 1]) /\ ~IsNaN(df[Len(df)])
  /\ ~(df[Len(df) - 1].ema > df[Len(df) - 1].sma)
  /\ df[Len(df)].ema > df[Len(df)].sma

\* C1 (SpecDet).  Stickiness: a call that reports a bullish crossover leaves
\* current_signal at BUY, and while current_signal is BUY a detect_crossover call
\* on the frame grown by one bar since the previous call returns BUY and keeps
\* BUY, unless the last two rows of that frame form a downward crossover.
C1_StickyBuy ==
  [][ /\ (ret'.crossover_type = "bullish" /\ ret' # ret) => current_signal' = "BUY"
      /\ ( /\ current_signal = "BUY"
           /\ lastLen' = Len(bars)
           /\ lastLen' = lastLen + 1
           /\ ~DownCrossAtEnd(bars) )
         => (ret'.signal = "BUY" /\ current_signal' = "BUY") ]_vars

\* C1 witness: a bullish crossover was reported on a frame of upAt rows and the
\* next call, one bar later, found no crossover and still returned BUY.
C1_Witness ==
  /\ upAt >= 2
  /\ lastLen = upAt + 1
  /\ ret.reason = "no_crossover"
  /\ ret.signal = "BUY"
  /\ current_signal = "BUY"

\* C2 (SpecDet).  A current_signal that is BUY or SELL changes only to the other
\* one, only in a detect_crossover call that reports the crossover, and only
\* when the last two rows of the frame form that crossover; so no call on empty
\* data, on fewer than two rows, on NaN indicators or after a fetch error
\* changes it.
C2_FlipOnlyByCrossover ==
  [][ (current_signal # None /\ current_signal' # current_signal)
        => \/ /\ current_signal = "BUY" /\ current_signal' = "SELL"
              /\ ret'.crossover_type = "bearish" /\ DownCrossAtEnd(bars)
           \/ /\ current_signal = "SELL" /\ current_signal' = "BUY"
              /\ ret'.crossover_type = "bullish" /\ UpCrossAtEnd(bars) ]_vars

\* C2 witness: a BUY set by a bullish crossover has been flipped to SELL by a
\* call that reported the bearish crossover.
C2_Witness ==
  /\ upAt >= 2
  /\ lastLen > upAt
  /\ current_signal = "SELL"
  /\ ret.crossover_type = "bearish"

\* C3 (Spec).  execute_trade submits no buy order when the position query
\* reports a nonzero quantity, and on BUY it then returns False.
C3_NoBuyWhenPositioned ==
  (obs.op = "execute_trade" /\ obs.reported.kind = "position" /\ obs.reported.qty # 0)
    => (obs.submitted # "buy" /\ (obs.signal = "BUY" => ~obs.result))

\* C3 witness: BUY re-decided on the long position a filled buy order made.
C3_Witness ==
  /\ obs.op = "execute_trade"
  /\ obs.signal = "BUY"
  /\ obs.reported.kind = "position"
  /\ obs.reported.qty > 0
  /\ obs.submitted = "none"
  /\ ~obs.result

\* C4 (Spec).  A buy order is never submitted while the broker holds a nonzero
\* position in the symbol, whatever the position query answered.
C4_NoBuyWhileHolding == obs.submitted = "buy" => broker.qty = 0

\* C5 (Spec).  Idempotence: when execute_trade follows an execute_trade that
\* succeeded, with the same signal and the same position answered by the
\* broker (flat included), it submits nothing.
C5_Idempotent ==
  [][ ( /\ obs.op = "execute_trade" /\ obs.result
        /\ obs'.op = "execute_trade"
        /\ obs'.signal = obs.signal
        /\ obs.reported.kind # "error"
        /\ obs'.reported = obs.reported )
      => obs'.submitted = "none" ]_vars

\* C6 (Spec).  On SELL execute_trade requests close_position when the reported
\* quantity is > 0 and submits nothing otherwise; no operation of the bot ever
\* submits a sell order.
C6_SellClosesLongOnly ==
  /\ obs.submitted # "sell"
  /\ (obs.op = "execute_trade" /\ obs.signal = "SELL")
       => IF obs.reported.kind = "position" /\ obs.reported.qty > 0
          THEN obs.submitted = "close"
          ELSE obs.submitted = "none"

\* C6 witness: SELL on a long position, closed through close_position.
C6_Witness ==
  /\ obs.op = "execute_trade"
  /\ obs.signal = "SELL"
  /\ obs.reported.kind = "position"
  /\ obs.reported.qty > 0
  /\ obs.submitted = "close"
  /\ obs.result

\* C7 (SpecStore).  No lost update: the shared file holds, for each bot, the
\* value of that bot's latest successful write.
C7_NoLostUpdate ==
  \A b \in Bots : store_last[b] # NoValue => store_file[b] = store_last[b]

\* The refresh just made found no position where the bot had tracked one.
SawFlatAfterOpen == obs.op # "world" /\ obs.reported.kind = "not_found" /\ obs.wasOpen

\* C8 as claimed (Spec).  After a refresh that finds no position where there
\* was one, current_value equals initial_value exactly.
C8_ResetExact == SawFlatAfterOpen => current_value = InitialValue

\* C8 as amended (Spec).  Such a refresh sets current_value to initial_value
\* when it differed from it by more than the epsilon and leaves it unchanged
\* otherwise, so that afterwards current_value is within the epsilon of
\* initial_value.
C8_ResetWithinEpsilon ==
  [][ (obs'.op # "world" /\ obs'.reported.kind = "not_found" /\ current_position # 0)
      => /\ IF Abs(InitialValue - current_value) > Eps
            THEN current_value' = InitialValue
            ELSE current_value' = current_value
         /\ Abs(current_value' - InitialValue) <= Eps ]_vars

\* C8 witness: the position is gone and the value stayed half a cent off.
C8_Witness ==
  /\ SawFlatAfterOpen
  /\ obs.update = "suppressed"
  /\ current_value # InitialValue

\* The refresh just made found a position with a market value.
SawPositionValue ==
  obs.op # "world" /\ obs.reported.kind = "position" /\ obs.reported.hasMV

\* C9 as claimed (Spec).  After a refresh that finds a position with market
\* value mv, current_value equals abs(mv).
C9_TracksExact == SawPositionValue => current_value = Abs(obs.reported.mv)

\* C9 as amended (Spec).  Such a refresh sets current_value to abs(mv) when it
\* differed from it by more than the epsilon and leaves it unchanged otherwise,
\* so that afterwards current_value is within the epsilon of abs(mv).
C9_TracksWithinEpsilon ==
  [][ (obs'.op # "world" /\ obs'.reported.kind = "position" /\ obs'.reported.hasMV)
      => /\ IF Abs(Abs(obs'.reported.mv) - current_value) > Eps
            THEN current_value' = Abs(obs'.reported.mv)
            ELSE current_value' = current_value
         /\ Abs(current_value' - Abs(obs'.reported.mv)) <= Eps ]_vars

\* C9 witness: a position was seen and the value stayed off its market value.
C9_Witness ==
  /\ SawPositionValue
  /\ obs.reported.qty # 0
  /\ obs.update = "suppressed"
  /\ current_value # Abs(obs.reported.mv)

\* The value a refresh answered by q passes to _update_current_value.
RefreshValue(q) == IF q.kind = "position" THEN Abs(q.mv) ELSE InitialValue

\* C10 as claimed (Spec).  A write to the store happens only when the new value
\* differs by more than the epsilon from the value the file holds.
C10_WriteOnlyOffPersisted ==
  [][ (obs'.op # "world" /\ obs'.write = "ok"
         /\ GetCurrentValueById(file, BotId) # NoValue)
      => Abs(RefreshValue(obs'.reported) - GetCurrentValueById(file, BotId)) > Eps ]_vars

\* C10 as amended (Spec).  A write to the store is attempted only when the new
\* value differs by more than the epsilon from the in-memory current_value.
C10_WriteOnlyOffCurrent ==
  [][ (obs'.op # "world" /\ obs'.write # "none")
      => Abs(RefreshValue(obs'.reported) - current_value) > Eps ]_vars

\* C10 witness: a write went through and the file, rounded to whole cents,
\* holds another value than current_value.
C10_Witness ==
  /\ obs.write = "ok"
  /\ GetCurrentValueById(file, BotId) # NoValue
  /\ GetCurrentValueById(file, BotId) # current_value

\* C11 (Spec).  Restart round trip: a BlingBot constructed right after an
\* operation whose _update_current_value(v) was written successfully starts
\* with current_value less than 0.01 from v, and one constructed on a store
\* that holds no current value for the identity starts with initial_value.
C11_RestartRoundTrip ==
  [][ obs'.op = "restart"
      => /\ obs.write = "ok" => Abs(current_value' - current_value) < Eps
         /\ GetCurrentValueById(file, BotId) = NoValue
              => current_value' = InitialValue ]_vars

\* C11 witness: restarted on a stored value that round() moved half a cent
\* off the value the previous bot held.
C11_Witness ==
  /\ obs.op = "restart"
  /\ GetCurrentValueById(file, BotId) # NoValue
  /\ current_value = GetCurrentValueById(file, BotId)
  /\ current_value \notin MarketValues

\* C12 (Spec).  A failed store write is swallowed: the operation goes on (a
\* BUY on a flat position is still submitted) and current_value is the new
\* value.
C12_WriteFailureNonFatal ==
  obs.write = "failed"
    => /\ obs.update = "applied"
       /\ current_value = RefreshValue(obs.reported)
       /\ (obs.op = "execute_trade" /\ obs.signal = "BUY" /\ current_position = 0)
            => obs.submitted = "buy"

\* C12 witness: the write failed, the file holds another value than the
\* memory, and the buy order of the same execute_trade went out.
C12_Witness ==
  /\ obs.write = "failed"
  /\ obs.op = "execute_trade"
  /\ obs.submitted = "buy"
  /\ obs.result
  /\ GetCurrentValueById(file, BotId) # current_value

\* C13 (Spec).  current_value is positive in every reachable state.
C13_ValuePositive == current_value > 0

\* C13 witness: a short position, whose market value the broker reports
\* negative, has been taken into current_value.
C13_Witness ==
  /\ obs.reported.kind = "position"
  /\ obs.reported.mv < 0
  /\ obs.update = "applied"
  /\ current_value = 0 - obs.reported.mv

\* C16 (SpecCycle).  A run() before the recompute interval has elapsed returns
\* the cached signal with trade_executed False and recalculated False, without
\* calling the algorithm and without submitting an order or a close request.
C16_CachedCycleIsNoOp ==
  [][ (obs'.op = "run" /\ last_signal_time = "recent")
      => /\ obs'.signal = cached_signal
         /\ ~obs'.result
         /\ ~obs'.recalculated
         /\ obs'.cause = "not_called"
         /\ obs'.submitted = "none"
         /\ cached_signal' = cached_signal
         /\ current_signal' = current_signal
         /\ broker' = broker ]_vars

\* C16 witness: a cached BUY reported on a flat account, and no order.
C16_Witness ==
  /\ obs.op = "run"
  /\ ~obs.recalculated
  /\ obs.signal = "BUY"
  /\ obs.reported.kind = "not_found"
  /\ broker.pending = 0
  /\ obs.submitted = "none"

\* An exception was raised inside the run() just made: the algorithm's
\* computation raised, the position query of execute_trade raised, or the
\* broker refused the order or the close request.
CycleFailed ==
  /\ obs.op = "run"
  /\ \/ obs.cause = "error"
     \/ obs.recalculated /\ obs.reported.kind = "error"
     \/ obs.submitted # "none" /\ ~obs.result

\* C17 (SpecCycle).  A run() in which an exception was raised reports SELL
\* with trade_executed False, raises nothing and submits no buy order.
C17_FailSafe ==
  CycleFailed
    => /\ obs.raised = "none"
       /\ obs.signal = "SELL"
       /\ ~obs.result
       /\ obs.submitted # "buy"

\* C18 (SpecCycle).  In a recalculating run() the position was refreshed, the
\* size of a buy order is the capital after that refresh, and cached_signal
\* and last_signal_time are those of the signal computed in this cycle,
\* whatever became of the trade.
C18_CachedBeforeExecution ==
  (obs.op = "run" /\ obs.recalculated)
    => /\ obs.reported.kind # "none"
       /\ obs.submitted = "buy" => obs.notional = current_value
       /\ cached_signal = obs.computed
       /\ last_signal_time = "recent"

\* C18 witness: the buy order of the cycle was refused and BUY is cached.
C18_Witness ==
  /\ obs.op = "run"
  /\ obs.recalculated
  /\ obs.submitted = "buy"
  /\ ~obs.result
  /\ obs.computed = "BUY"
  /\ cached_signal = "BUY"

\* C20 (SpecCycle).  When the fetch yields no data, the detector answers its
\* current_signal (SELL if unset) with price None and keeps current_signal,
\* and the cycle reports that signal and raises nothing.
C20_NoDataKeepsSignal ==
  [][ (obs'.op = "run" /\ obs'.cause = "no_data")
      => /\ current_signal' = current_signal
         /\ obs'.computed = OrSell(current_signal)
         /\ obs'.price = None
         /\ obs'.signal = obs'.computed
         /\ obs'.raised = "none" ]_vars

\* C20 witness: no data while the detector holds BUY; the cycle went on to
\* trade on BUY.
C20_Witness ==
  /\ obs.op = "run"
  /\ obs.cause = "no_data"
  /\ current_signal = "BUY"
  /\ obs.signal = "BUY"
  /\ obs.recalculated
  /\ obs.submitted = "buy"

\* C14 (SpecSession).  The guard of run_bot halts exactly when current_value
\* is at or below 950.00 or at or above 1100.00 (initial_value 1000, threshold
\* -0.05, target 0.10): 949.99 and 950.00 halt, 950.01 does not.
C14_GuardInclusive ==
  [][ (obs'.op = "tick" /\ obs'.guard \in {"halt", "pass"})
      => /\ obs'.guard = "halt"
              <=> (current_value <= 190000 \/ current_value >= 220000)
         /\ current_value = 189998 => obs'.guard = "halt"
         /\ current_value = 190002 => obs'.guard = "pass" ]_vars

\* C14 witness: the session halted with current_value on the loss limit.
C14_Witness ==
  /\ obs.op = "tick"
  /\ obs.guard = "halt"
  /\ current_value = 190000
  /\ session = "over"

\* C15 (SpecSession).  Halt is terminal: the tick whose guard halts requests
\* close_position and ends the session, and once the session is over it stays
\* over, no tick runs and no buy order is added.
C15_HaltTerminal ==
  [][ /\ obs'.guard = "halt" => (obs'.submitted = "close" /\ session' = "over")
      /\ session = "over"
           => /\ session' = "over"
              /\ obs'.op \notin {"tick", "run", "execute_trade"}
              /\ broker'.pending <= broker.pending ]_vars

\* C15 witness: the guard halted on an open position, the close request was
\* taken and the session is over.
C15_Witness ==
  /\ obs.op = "tick"
  /\ obs.guard = "halt"
  /\ obs.submitted = "close"
  /\ obs.result
  /\ broker.closing
  /\ session = "over"

\* C19 (SpecSession).  A tick whose cycle runs on a stale connection leaves the
\* client reconnected.
C19_ReconnectAfterFailure ==
  [][ (broker.conn = "stale" /\ obs'.op = "tick" /\ obs'.guard = "pass")
      => broker'.conn = "ok" ]_vars

\* The config entry from_config_id refuses: the id is not listed, or the
\* algorithm name is not registered.
ConfigInvalid ==
  BotId \notin DOMAIN file \/ AlgorithmName(algorithm) \notin Algorithms

\* C21 (SpecLaunch).  On an invalid configuration from_config_id raises, and
\* for that bot no run_bot loop is entered, no cycle runs, no order or close
\* request goes to the broker and the store is not written.
C21_InvalidConfigNeverTrades ==
  ConfigInvalid
    => /\ session \in {"unbuilt", "rejected"}
       /\ session = "rejected" => (obs.op = "from_config_id" /\ obs.raised = "ValueError")
       /\ obs.op \in {"init", "from_config_id"}
       /\ obs.submitted = "none" /\ obs.write = "none"
       /\ broker.pending = 0 /\ ~broker.closing
       /\ config_data = file

\* C21 witness: the bot is listed, its algorithm name is not registered, and
\* its construction was refused.
C21_Witness ==
  /\ session = "rejected"
  /\ BotId \in DOMAIN file
  /\ algorithm = "martingale"
  /\ obs.raised = "ValueError"

\* C22 (Spec).  An execute_trade in which a broker call fails (the position
\* query fails, or the order or the close request is refused) returns False,
\* raises nothing, and leaves current_value and current_position as they were
\* before the failing call: as before the execute_trade when the query fails,
\* as the refresh left them when the order or the close request fails.
C22_FailedTradeKeepsState ==
  [][ obs'.op = "execute_trade"
      => /\ obs'.reported.kind = "error"
              => /\ ~obs'.result /\ obs'.raised = "none"
                 /\ current_value' = current_value
                 /\ current_position' = current_position
         /\ (obs'.submitted # "none" /\ ~obs'.result)
              => /\ obs'.raised = "none"
                 /\ current_position' = obs'.reported.qty
                 /\ current_value' = IF obs'.update = "applied"
                                     THEN RefreshValue(obs'.reported)
                                     ELSE current_value ]_vars

\* The last row of df is valid and has ema_9 equal to sma_21.
TieAtEnd(df) ==
  /\ Len(df) >= 1
  /\ ~IsNaN(df[Len(df)])
  /\ df[Len(df)].ema = df[Len(df)].sma

\* C23 (SpecDet).  Tie-break: a detect_crossover call on a frame whose last
\* row has ema_9 equal to sma_21 reports no bullish crossover, whatever the
\* row before, and returns BUY only as the BUY it already held.
C23_TieIsNotAbove ==
  [][ (bars' = bars /\ lastLen' = Len(bars) /\ TieAtEnd(bars))
      => /\ ret'.crossover_type # "bullish"
         /\ ret'.signal = "BUY" => (current_signal = "BUY" /\ ret'.reason # "crossed_above")
         /\ current_signal' = "BUY" => current_signal = "BUY" ]_vars

\* C23 witness: BUY was set by a bullish crossover, and a later call on a frame
\* that ends in a tie returned BUY as the maintained signal.
C23_Witness ==
  /\ upAt >= 2
  /\ lastLen = Len(bars)
  /\ lastLen > upAt
  /\ TieAtEnd(bars)
  /\ ret.signal = "BUY"
  /\ ret.reason = "no_crossover"
  /\ current_signal = "BUY"

\* C24 (SpecDet).  Every dict detect_crossover or get_signal returns has BUY or
\* SELL as its signal, and a current_signal that is BUY or SELL is BUY or SELL
\* after every later call.
C24_SignalIsBuyOrSell ==
  [][ /\ ret' # NoRet => ret'.signal \in {"BUY", "SELL"}
      /\ current_signal \in {"BUY", "SELL"} => current_signal' \in {"BUY", "SELL"}
      /\ current_signal' \in {None, "BUY", "SELL"} ]_vars

\* C24 witness: a call on fewer than two rows, with no signal held, answered
\* the SELL default.
C24_Witness ==
  /\ ret.reason = "insufficient"
  /\ ret.signal = "SELL"
  /\ current_signal = None
  /\ lastLen = 1

\* The rows of df with both indicators, in order.
ValidRows(df) == SelectSeq(df, LAMBDA p : p.sma # NaN)

\* No two neighbouring rows of v differ in "EMA above SMA".
NoCrossIn(v) ==
  \A i \in 2..Len(v) : (v[i - 1].ema > v[i - 1].sma) = (v[i].ema > v[i].sma)

\* BUY if the EMA is above the SMA on the last row of v, otherwise SELL.
SignAtEnd(v) == IF v[Len(v)].ema > v[Len(v)].sma THEN "BUY" ELSE "SELL"

\* The step is a detect_crossover call on the frame bars.
DetectCalled ==
  /\ bars' = bars
  /\ lastLen' = Len(bars)
  /\ ret'.reason \in {"insufficient", "nan", "no_crossover", "crossed_above", "crossed_below"}

C26_StoreRoundTrip ==
  (obs.op = "update_current_value_by_id" /\ obs.result /\ obs.value % 2 = 0)
    => /\ GetCurrentValueById(config_data, obs.id) = obs.value
       /\ GetCurrentValueById(file, obs.id) = obs.value

\* C26 witness: a value of whole cents other than the one the file held was
\* stored and reads back from the file.
C26_Witness ==
  /\ obs.op = "update_current_value_by_id"
  /\ obs.result
  /\ obs.id = BotId
  /\ obs.value % 2 = 0
  /\ obs.value # InitialValue
  /\ GetCurrentValueById(file, BotId) = obs.value

\* The sum of the s closes that end at row i, added up one by one.
RECURSIVE TrailingSum(_, _, _)
TrailingSum(c, i, s) == IF s = 0 THEN 0 ELSE c[i] + TrailingSum(c, i - 1, s - 1)

\* C27 (SpecSma).  The SMA series is NaN on every row before row sma_period
\* (index < period - 1 counting from 0) and is the arithmetic mean of the
\* trailing sma_period closes on every row from there on.
C27_SmaWarmUp ==
  /\ Len(sma_21) <= Len(closes)
  /\ \A i \in 1..Len(sma_21) :
       IF i < sma_period
       THEN sma_21[i] = NaNMean
       ELSE /\ sma_21[i].n = sma_period
            /\ sma_21[i].sum = TrailingSum(closes, i, sma_period)

\* C27 witness: the window has slid: the first rows are NaN, and the last mean
\* no longer holds the first close.
C27_Witness ==
  /\ sma_period >= 2
  /\ Len(sma_21) > sma_period
  /\ sma_21[1] = NaNMean
  /\ sma_21[Len(sma_21)] # NaNMean
  /\ closes[1] # closes[sma_period + 1]

\* The capital v is at or beyond the loss limit or the gain target.
BeyondLimit(v) == v <= LossLimit \/ v >= GainLimit

\* C28 (SpecSession).  In a tick made while the market is open, the halt check
\* sees the capital as the tick's refresh left it: a tick that ends with
\* current_value at or beyond a limit has halted, and has submitted nothing
\* but the close request of the halt.
C28_RefreshBeforeHaltCheck ==
  [][ (obs'.op = "tick" /\ obs'.guard # "closed" /\ BeyondLimit(current_value'))
      => /\ obs'.guard = "halt"
         /\ obs'.submitted \in {"none", "close"} ]_vars

\* Row i of v differs from row i - 1 in "EMA above SMA".
FlagChangesAt(v, i) == (v[i - 1].ema > v[i - 1].sma) # (v[i].ema > v[i].sma)

\* The greatest index of v at which the flag changes.
LastChange(v) ==
  CHOOSE i \in 2..Len(v) :
    FlagChangesAt(v, i) /\ \A j \in (i + 1)..Len(v) : ~FlagChangesAt(v, j)

\* BUY if the EMA is above the SMA on row i of v, otherwise SELL.
DirectionAt(v, i) == IF v[i].ema > v[i].sma THEN "BUY" ELSE "SELL"

\* C29 (SpecLookBack).  On a series with two or more valid points of which
\* some neighbours differ in "EMA above SMA", _find_last_crossover_signal
\* returns the direction at the greatest index whose flag differs from the one
\* before: BUY if the EMA is above the SMA there, SELL if not.
C29_LookBackFindsLatest ==
  ( /\ ret.reason = "look_back"
    /\ lastLen = Len(bars)
    /\ Len(ValidRows(bars)) >= 2
    /\ ~NoCrossIn(ValidRows(bars)) )
  => ret.signal = DirectionAt(ValidRows(bars), LastChange(ValidRows(bars)))

\* C29 witness: the series crosses down and later up again, and the look-back
\* answered BUY, the direction of the later crossover.
C29_Witness ==
  /\ ret.reason = "look_back"
  /\ lastLen = Len(bars)
  /\ Len(ValidRows(bars)) >= 3
  /\ \E i \in 2..Len(ValidRows(bars)) :
       /\ FlagChangesAt(ValidRows(bars), i)
       /\ i < LastChange(ValidRows(bars))
  /\ ret.signal = "BUY"

\* C30 (SpecDet).  After a detect_crossover call on a series whose valid
\* points contain a crossover, current_signal is the direction of the latest
\* crossover of the series, however many bars the series gained since the
\* call before.
C30_SignalIsLatestCrossover ==
  [][ ( /\ DetectCalled
        /\ Len(ValidRows(bars)) >= 2
        /\ ~NoCrossIn(ValidRows(bars)) )
      => current_signal' = DirectionAt(ValidRows(bars), LastChange(ValidRows(bars))) ]_vars

\* The current_signal of a detector constructed before the series began and
\* called with detect_crossover on each of the first n prefixes of df in turn.
RECURSIVE CalledOnPrefixes(_, _)
CalledOnPrefixes(df, n) ==
  IF n = 0 THEN None
  ELSE DetectCrossover(CalledOnPrefixes(df, n - 1), SubSeq(df, 1, n)).cur

\* C31 (SpecDet).  Restart determinism: on every series, a detector just
\* constructed returns the signal that a detector called on every earlier
\* prefix of the series returns, warm-up prefixes included.
C31_RestartDeterminism ==
  Len(bars) >= 1
    => DetectCrossover(None, bars).ret.signal
         = DetectCrossover(CalledOnPrefixes(bars, Len(bars) - 1), bars).ret.signal

\* The latest call was a detect_crossover call on the frame bars.
DetectedOnBars ==
  /\ lastLen = Len(bars)
  /\ ret.reason \in {"insufficient", "nan", "no_crossover", "crossed_above", "crossed_below"}

\* C32 (SpecDet).  A detect_crossover call on a frame whose row before the last
\* has the EMA above the SMA and whose last row has them equal reports the
\* bearish crossover: it returns SELL and leaves current_signal at SELL.
C32_TouchFromAboveIsBearish ==
  ( /\ DetectedOnBars
    /\ Len(bars) >= 2
    /\ TieAtEnd(bars)
    /\ bars[Len(bars) - 1].sma # NaN
    /\ bars[Len(bars) - 1].ema > bars[Len(bars) - 1].sma )
  => /\ ret.signal = "SELL"
     /\ ret.crossover_type = "bearish"
     /\ ret.reason = "crossed_below"
     /\ current_signal = "SELL"

\* C32 witness: a BUY set by a bullish crossover was flipped to SELL by the
\* next bar, on which the EMA touches the SMA.
C32_Witness ==
  /\ DetectedOnBars
  /\ upAt >= 2
  /\ lastLen = upAt + 1
  /\ TieAtEnd(bars)
  /\ ret.crossover_type = "bearish"
  /\ current_signal = "SELL"

\* C33 (SpecCycle).  A run() whose get_signal stored a signal in cached_signal
\* reports, and has handed to execute_trade, that same signal, on either
\* algorithm.
C33_ReturnedSignalIsCached ==
  (obs.op = "run" /\ obs.computed # None) => obs.signal = cached_signal

\* The buy order of the run() just made, on a position reported flat, was
\* refused.
RejectedBuy ==
  /\ obs.op = "run" /\ obs.recalculated
  /\ obs.reported.kind = "not_found"
  /\ obs.submitted = "buy" /\ ~obs.result

\* A recalculating run() has just been made without the case of the claim:
\* its signal was not BUY, or the position was not reported flat.
CycleOutsideBuyCase ==
  /\ obs.op = "run" /\ obs.recalculated
  /\ ~(obs.signal = "BUY" /\ obs.reported.kind = "not_found")

LeftLoop == obs.op = "tick" /\ obs.guard \in {"closed", "halt"}

\* C35 (SpecSession).  The pass that leaves run_bot's loop, on a closed market
\* or on a daily limit, makes no run() and requests close_position; the session
\* is then over, and a session that is over was left by such a pass and has
\* made no cycle since.
C35_CloseAfterLastCycle ==
  /\ LeftLoop => (obs.submitted = "close" /\ ~obs.recalculated /\ session = "over")
  /\ session = "over" => (obs.op \in {"tick", "world"} /\ (obs.op = "tick" => LeftLoop))

\* C35 witness: the market closed on a position bought by an earlier cycle, and
\* the close request was taken.
C35_Witness ==
  /\ LeftLoop
  /\ obs.guard = "closed"
  /\ obs.submitted = "close"
  /\ obs.result
  /\ broker.closing
  /\ session = "over"

\* C36 (SpecTrader).  A TradingBot.run() whose execute_trade was told of a
\* long position by the broker submits no buy order.
C36_NoBuyOnLongPosition ==
  (obs.op = "run" /\ obs.reported.kind = "position" /\ obs.reported.qty > 0)
    => obs.submitted # "buy"

\* Both threads have left save_config.
BothSaved == \A b \in Bots : save_thread[b].pc = "done"

\* C37 (SpecSave).  Once both threads have left save_config, the file holds the
\* whole snapshot of one of them.
C37_FileIsOneSnapshot ==
  BothSaved => save_file \in {Snapshot(b, save_thread[b].len) : b \in Bots}

\* C38 (Spec).  After every refresh that finds a position with market value
\* mv, over any sequence of refreshes, fills and market moves, current_value is
\* within the epsilon of abs(mv).
C38_NoDriftBeyondEpsilon ==
  SawPositionValue => Abs(current_value - Abs(obs.reported.mv)) <= Eps

\* C38 witness: current_value was taken from an earlier market value, and the
\* refresh just made, on a market value half a cent away, was suppressed.
C38_Witness ==
  /\ SawPositionValue
  /\ obs.update = "suppressed"
  /\ current_value = InitialValue + 1
  /\ Abs(obs.reported.mv) = InitialValue

\* C39 (Spec).  Every buy order carries as notional the current_value of the
\* moment it is submitted, and that value is within the epsilon of
\* initial_value.
C39_BuyNotionalIsInitialValue ==
  obs.submitted = "buy"
    => (obs.notional = current_value /\ Abs(obs.notional - InitialValue) <= Eps)

\* C39 witness: the position of an earlier entry is gone, the refresh of
\* execute_trade took current_value back from that position's value to
\* initial_value, and the new buy order was taken.
C39_Witness ==
  /\ obs.op = "execute_trade"
  /\ obs.submitted = "buy"
  /\ obs.result
  /\ obs.reported.kind = "not_found"
  /\ obs.update = "applied"
  /\ obs.notional = InitialValue

\* The identity the call of obs names is in the store cfg.
Listed(cfg, o) ==
  IF o.op = "update_current_value_by_id"
  THEN o.id \in DOMAIN cfg
  ELSE \E i \in DOMAIN cfg : SymbolOf(i) = o.id

\* C40 (SpecConfig).  update_current_value_by_id and update_current_value
\* called with an identity the store does not list return False, write nothing
\* and leave config_data and the file as they were.
C40_UnknownIdentityChangesNothing ==
  [][ ( /\ obs'.op \in {"update_current_value_by_id", "update_current_value"}
        /\ ~Listed(config_data, obs') )
      => /\ ~obs'.result
         /\ obs'.write = "none"
         /\ config_data' = config_data
         /\ file' = file ]_vars

\* C40 witness: a symbol no entry has was asked for on a store that lists the
\* bot with a value; the call answered False.
C40_Witness ==
  /\ obs.op = "update_current_value"
  /\ obs.id \notin {SymbolOf(i) : i \in DOMAIN config_data}
  /\ ~obs.result
  /\ GetCurrentValueById(config_data, BotId) # NoValue
  /\ file = config_data

====
